---------------------------- MODULE Spec2Model ----------------------------
(***************************************************************************)
(* Model of std_ipw_did_rc, the standardized (Hajek) inverse-probability   *)
(* weighted difference-in-differences estimator for repeated cross         *)
(* sections (src/pydid/drdid/estimators/std_ipw_did_rc.py).                *)
(*                                                                         *)
(* One call of the function is a run of the state machine: the inputs are  *)
(* fixed by Init, every block of the function body is one action, and the  *)
(* run ends in pc = "done" with either a returned result or a raised       *)
(* exception.  The three collaborators (the statsmodels Logit fit, the     *)
(* multiplier bootstrap mboot_did and the weighted bootstrap              *)
(* wboot_std_ipw_rc) are the environment: what they reply is not decided   *)
(* by this function, so every reply of a bounded set is explored.          *)
(*                                                                         *)
(* Numbers.  A float is modelled by an exact extended rational <<n, d>>:   *)
(* d > 0 is the fraction n/d in lowest terms, <<1, 0>> and <<-1, 0>> are   *)
(* +inf and -inf, and <<0, 0>> is NaN, with the IEEE rules for them        *)
(* (0/0 = NaN, 0 * inf = NaN, inf - inf = NaN, every comparison with NaN   *)
(* is false).  Rounding is not modelled.                                   *)
(***************************************************************************)
EXTENDS Integers, Sequences, FiniteSets, TLC

(***************************************************************************)
(* Bounds of the model.                                                    *)
(***************************************************************************)
NUnits == 5        \* n_units: the length of y, post, d (and the rows of covariates)
MaxNBoot == 2      \* nboot ranges over 1..MaxNBoot

(***************************************************************************)
(* Program constants.                                                      *)
(***************************************************************************)
ClipDen == 1000000 \* np.clip(ps_fit, 1e-6, 1 - 1e-6): 1e-6 = 1/ClipDen

None == <<>>       \* Python's None, and the value of a local not yet assigned

(***************************************************************************)
(* Extended rational arithmetic (numpy float arithmetic, without rounding) *)
(***************************************************************************)
RECURSIVE GCD(_, _)
GCD(a, b) == IF b = 0 THEN a ELSE GCD(b, a % b)

Sgn(x) == IF x > 0 THEN 1 ELSE IF x < 0 THEN -1 ELSE 0

Abs(x) == IF x < 0 THEN -x ELSE x

NaN == <<0, 0>>

PosInf == <<1, 0>>

NegInf == <<-1, 0>>

Rat(n, dd) ==
    IF dd = 0 THEN <<Sgn(n), 0>>
    ELSE LET g == GCD(Abs(n), Abs(dd))
             s == Sgn(dd)
         IN  <<s * (n \div g), s * (dd \div g)>>

Num(i) == <<i, 1>>

Zero == <<0, 1>>

One == <<1, 1>>

IsNaN(a) == a[1] = 0 /\ a[2] = 0

IsInf(a) == a[1] # 0 /\ a[2] = 0

IsFinite(a) == a[2] # 0

Neg(a) == <<-a[1], a[2]>>

Mul(a, b) ==
    IF IsNaN(a) \/ IsNaN(b) THEN NaN
    ELSE IF IsInf(a) \/ IsInf(b) THEN <<Sgn(a[1]) * Sgn(b[1]), 0>>
    ELSE LET g1 == GCD(Abs(a[1]), b[2])
             g2 == GCD(Abs(b[1]), a[2])
         IN  <<(a[1] \div g1) * (b[1] \div g2), (a[2] \div g2) * (b[2] \div g1)>>

Add(a, b) ==
    IF IsNaN(a) \/ IsNaN(b) THEN NaN
    ELSE IF IsInf(a) THEN (IF IsInf(b) /\ b[1] # a[1] THEN NaN ELSE a)
    ELSE IF IsInf(b) THEN b
    ELSE LET g == GCD(a[2], b[2])
         IN  Rat(a[1] * (b[2] \div g) + b[1] * (a[2] \div g), (a[2] \div g) * b[2])

Sub(a, b) == Add(a, Neg(b))

Recip(b) ==
    IF IsNaN(b) THEN NaN
    ELSE IF IsInf(b) THEN Zero
    ELSE IF b[1] = 0 THEN PosInf
    ELSE <<Sgn(b[1]) * b[2], Abs(b[1])>>

\* a / b: 0/0 is NaN, x/0 is an infinity of x's sign
Div(a, b) == Mul(a, Recip(b))

\* a < b; False when either is NaN
Lt(a, b) ==
    IF IsNaN(a) \/ IsNaN(b) THEN FALSE
    ELSE IF IsInf(a) /\ IsInf(b) THEN a[1] < b[1]
    ELSE a[1] * b[2] < b[1] * a[2]

\* a >= b; False when either is NaN
Ge(a, b) == ~IsNaN(a) /\ ~IsNaN(b) /\ ~Lt(a, b)

(***************************************************************************)
(* Vectors (1-D arrays) and matrices (sequences of rows)                   *)
(***************************************************************************)
Idx(v) == 1..Len(v)

\* the array with the entries of the function f on 1..n, every entry evaluated once
Vec(f) == f \o <<>>

RECURSIVE SumTo(_, _)
SumTo(v, i) == IF i = 0 THEN Zero ELSE Add(SumTo(v, i - 1), v[i])

\* np.sum(v)
Sum(v) == SumTo(v, Len(v))

\* np.mean(v)
Mean(v) == Div(Sum(v), Num(Len(v)))

\* element-wise v * s, v / s and v - u
Scale(v, s) == Vec([i \in Idx(v) |-> Mul(v[i], s)])

VDiv(v, s) == Vec([i \in Idx(v) |-> Div(v[i], s)])

VSub(v, u) == Vec([i \in Idx(v) |-> Sub(v[i], u[i])])

VAdd(v, u) == Vec([i \in Idx(v) |-> Add(v[i], u[i])])

VMul(v, u) == Vec([i \in Idx(v) |-> Mul(v[i], u[i])])

\* the integer array a as floats
AsFloat(a) == Vec([i \in Idx(a) |-> Num(a[i])])


(***************************************************************************)
(* Lines 105-111: observation weights                                      *)
(***************************************************************************)
\* a check of the first weight only
AnyNegativeFirst(w) == w[1] < 0

\* np.any(i_weights < 0)
AnyNegative(w) == \E i \in Idx(w) : w[i] < 0

\* i_weights / np.mean(i_weights)
NormalizeWeights(w) == VDiv(AsFloat(w), Mean(AsFloat(w)))

\* np.ones(n_units)
Ones(n) == Vec([i \in 1..n |-> 1])

\* np.ones((n_units, 1))
OnesColumn(n) == Vec([i \in 1..n |-> <<1>>])

(***************************************************************************)
(* Lines 113-120: presence of both groups and both periods                 *)
(***************************************************************************)
\* np.any(a == v)
AnyEq(a, v) == \E i \in Idx(a) : a[i] = v

\* the message of the first check of lines 113-120 that fails, "" if none does
GroupCheck(dd, pp) ==
    IF ~AnyEq(dd, 1) THEN "No treated units found. Cannot estimate treatment effect."
    ELSE IF ~AnyEq(dd, 0) THEN "No control units found. Cannot estimate treatment effect."
    ELSE IF ~AnyEq(pp, 1) THEN "No post-treatment observations found."
    ELSE IF ~AnyEq(pp, 0) THEN "No pre-treatment observations found."
    ELSE ""

(***************************************************************************)
(* Lines 123-138: propensity score.  A coefficient b of the fitted logit   *)
(* is carried as exp(b) (an extended rational: 0 is b = -inf, +inf is      *)
(* b = +inf, NaN is NaN), so that with 0/1 covariates the linear predictor *)
(* x.b is carried as exp(x.b), a product, and the logistic function        *)
(* 1/(1 + exp(-x.b)) is the exact rational e/(1 + e).                      *)
(***************************************************************************)
\* np.any(np.isnan(pscore_results.params))
AnyNaN(params) == \E j \in Idx(params) : IsNaN(params[j])

\* exp(x * b) for one covariate value x in {0, 1}: 0 * (+-inf) and 0 * NaN are NaN
ExpTerm(x, eb) ==
    IF x = 1 THEN eb
    ELSE IF IsFinite(eb) /\ eb[1] # 0 THEN One
    ELSE NaN

RECURSIVE ExpLinPred(_, _, _)
\* exp of the linear predictor of one row: the sum of the x * b is a product here
ExpLinPred(row, params, j) ==
    IF j = 0 THEN One ELSE Mul(ExpLinPred(row, params, j - 1), ExpTerm(row[j], params[j]))

\* the logistic cdf 1/(1 + exp(-t)), given e = exp(t)
LogisticCdf(e) ==
    IF IsNaN(e) THEN NaN
    ELSE IF IsInf(e) THEN One
    ELSE Div(e, Add(One, e))

\* pscore_results.predict(covariates)
Predict(cov, params) ==
    Vec([i \in Idx(cov) |-> LogisticCdf(ExpLinPred(cov[i], params, Len(params)))])

ClipLo == Rat(1, ClipDen)

ClipHi == Rat(ClipDen - 1, ClipDen)

\* np.clip(p, 1e-6, 1 - 1e-6) of one entry; NaN stays NaN
Clip(p) ==
    IF IsNaN(p) THEN NaN
    ELSE IF Lt(p, ClipLo) THEN ClipLo
    ELSE IF Lt(ClipHi, p) THEN ClipHi
    ELSE p

\* ps_fit = np.clip(ps_fit, 1e-6, 1 - 1e-6)
PsFit(cov, params) ==
    LET p == Predict(cov, params) IN Vec([i \in Idx(p) |-> Clip(p[i])])

\* ps_weights = ps_fit * (1 - ps_fit) * i_weights
PsWeights(ps, w) == Vec([i \in Idx(ps) |-> Mul(Mul(ps[i], Sub(One, ps[i])), w[i])])

(***************************************************************************)
(* Lines 140-149: trimming and the four weight vectors                     *)
(***************************************************************************)
\* trim_ps = ones; trim_ps[d == 0] = ps_fit[d == 0] < trim_level
TrimPs(dd, ps, trim) ==
    Vec([i \in Idx(dd) |-> IF dd[i] = 0 THEN (IF Lt(ps[i], trim) THEN 1 ELSE 0) ELSE 1])

\* 1 - post, 1 - d
Compl(a) == Vec([i \in Idx(a) |-> 1 - a[i]])

\* trim_ps * i_weights * d * sel        (sel is post or 1 - post)
WTreat(tr, w, dd, sel) ==
    Vec([i \in Idx(w) |-> Mul(Mul(Mul(Num(tr[i]), w[i]), Num(dd[i])), Num(sel[i]))])

\* trim_ps * i_weights * ps_fit * (1 - d) * sel / (1 - ps_fit)
WCont(tr, w, ps, dd, sel) ==
    Vec([i \in Idx(w) |->
            Div(Mul(Mul(Mul(Mul(Num(tr[i]), w[i]), ps[i]), Num(1 - dd[i])), Num(sel[i])),
                Sub(One, ps[i]))])

(***************************************************************************)
(* Lines 151-164: Hajek cell means and the ATT                             *)
(***************************************************************************)
\* eta = w * y / np.mean(w)
Eta(w, yy) == VDiv(VMul(w, yy), Mean(w))

\* a cell mean that is not standardized by the mean weight
CellAttRaw(w, yy) == Mean(VMul(w, yy))

\* att_cell = np.mean(eta)
CellAtt(w, yy) == Mean(Eta(w, yy))

\* ipw_att = (att_treat_post - att_treat_pre) - (att_cont_post - att_cont_pre)
IpwAtt(wtpre, wtpost, wcpre, wcpost, yy) ==
    Sub(Sub(CellAtt(wtpost, yy), CellAtt(wtpre, yy)),
        Sub(CellAtt(wcpost, yy), CellAtt(wcpre, yy)))

(***************************************************************************)
(* Lines 166-200: influence function.  Matrices are k x k with k <= 2.     *)
(***************************************************************************)
\* score_ps = (i_weights * (d - ps_fit))[:, np.newaxis] * covariates
ScorePs(w, dd, ps, cov) ==
    Vec([i \in Idx(w) |->
            Vec([a \in Idx(cov[i]) |->
                    Mul(Mul(w[i], Sub(Num(dd[i]), ps[i])), Num(cov[i][a]))])])

\* covariates.T @ (ps_weights[:, np.newaxis] * covariates)
Gram(cov, psw) ==
    LET k == Len(cov[1])
    IN  Vec([a \in 1..k |-> Vec([b \in 1..k |->
            Sum(Vec([i \in Idx(cov) |->
                        Mul(Num(cov[i][a]), Mul(psw[i], Num(cov[i][b])))]))])])

\* the determinant of a 1 x 1 or 2 x 2 matrix
Det(m) ==
    IF Len(m) = 1 THEN m[1][1]
    ELSE Sub(Mul(m[1][1], m[2][2]), Mul(m[1][2], m[2][1]))

\* np.linalg.inv raises LinAlgError: the matrix is exactly singular
\* (a matrix with a NaN entry is not reported singular: its inverse is NaN)
IsSingular(m) == IsFinite(Det(m)) /\ Det(m)[1] = 0

\* np.linalg.inv(m) of a non-singular matrix
MatInv(m) ==
    IF Len(m) = 1 THEN <<<<Recip(m[1][1])>>>>
    ELSE LET r == Recip(Det(m))
         IN  << <<Mul(m[2][2], r), Mul(Neg(m[1][2]), r)>>,
                <<Mul(Neg(m[2][1]), r), Mul(m[1][1], r)>> >>

\* np.linalg.pinv(m) of a singular symmetric positive semi-definite matrix:
\* the zero matrix for m = 0, and m / trace(m)^2 for a rank-one m
MatPinv(m) ==
    LET tr == IF Len(m) = 1 THEN m[1][1] ELSE Add(m[1][1], m[2][2])
    IN  IF tr[1] = 0 THEN Vec([a \in Idx(m) |-> Vec([b \in Idx(m) |-> Zero])])
        ELSE Vec([a \in Idx(m) |-> Vec([b \in Idx(m) |-> Div(m[a][b], Mul(tr, tr))])])

\* hessian_ps: inv(...) * n_units, or pinv(...) * n_units when inv raises
HessianPs(cov, psw) ==
    LET g == Gram(cov, psw)
        h == IF IsSingular(g) THEN MatPinv(g) ELSE MatInv(g)
    IN  Vec([a \in Idx(h) |-> Vec([b \in Idx(h) |-> Mul(h[a][b], Num(Len(cov)))])])

\* row @ matrix and row @ vector
RowMat(row, m) ==
    Vec([b \in Idx(m) |-> Sum(Vec([a \in Idx(row) |-> Mul(row[a], m[a][b])]))])

Dot(u, v) == Sum(Vec([a \in Idx(u) |-> Mul(u[a], v[a])]))

\* asy_lin_rep_ps = score_ps @ hessian_ps
AsyLinRepPs(w, dd, ps, cov) ==
    LET sc == ScorePs(w, dd, ps, cov)
        h == HessianPs(cov, PsWeights(ps, w))
    IN  Vec([i \in Idx(w) |-> RowMat(sc[i], h)])

\* inf_cell = eta_cell - w_cell * att_cell / np.mean(w_cell)
InfCell(wc, yy) == VSub(Eta(wc, yy), VDiv(Scale(wc, CellAtt(wc, yy)), Mean(wc)))

\* m2 = np.mean((w_cont * (y - att_cont))[:, np.newaxis] * covariates, axis=0) / np.mean(w_cont)
M2(wc, yy, cov) ==
    LET att == CellAtt(wc, yy)
    IN  Vec([a \in Idx(cov[1]) |->
                Div(Mean(Vec([i \in Idx(wc) |->
                                 Mul(Mul(wc[i], Sub(yy[i], att)), Num(cov[i][a]))])),
                    Mean(wc))])

\* inf_cont_ps = asy_lin_rep_ps @ (m2_post - m2_pre)
InfContPs(w, dd, ps, cov, wcpre, wcpost, yy) ==
    LET asy == AsyLinRepPs(w, dd, ps, cov)
        delta == VSub(M2(wcpost, yy, cov), M2(wcpre, yy, cov))
    IN  Vec([i \in Idx(w) |-> Dot(asy[i], delta)])

\* att_inf_func = inf_treat - inf_cont, with
\* inf_treat = inf_treat_post - inf_treat_pre and
\* inf_cont = (inf_cont_post - inf_cont_pre) + inf_cont_ps
AttInfFunc(w, dd, ps, cov, wtpre, wtpost, wcpre, wcpost, yy) ==
    LET inf_treat == VSub(InfCell(wtpost, yy), InfCell(wtpre, yy))
        inf_cont == VAdd(VSub(InfCell(wcpost, yy), InfCell(wcpre, yy)),
                         InfContPs(w, dd, ps, cov, wcpre, wcpost, yy))
    IN  VSub(inf_treat, inf_cont)

(***************************************************************************)
(* Lines 202-221: standard error and confidence bounds.  A square root, an *)
(* inter-quartile range and a quantile are kept as terms: <<"sqrt", q>> is *)
(* the root of q, and so on; <<a, c, s>> is the bound a + c * s.           *)
(***************************************************************************)
\* np.std(v, ddof=1) ** 2: the sample variance with the n - 1 denominator
SampleVar(v) ==
    LET m == Mean(v)
        dev == Vec([i \in Idx(v) |-> Sub(v[i], m)])
    IN  Div(Sum(VMul(dev, dev)), Num(Len(v) - 1))

\* np.std(att_inf_func, ddof=1) / np.sqrt(n_units)
AnalyticSe(inf) == <<"sqrt", Div(SampleVar(inf), Num(Len(inf)))>>

\* stats.iqr(v, nan_policy="omit") / (stats.norm.ppf(0.75) - stats.norm.ppf(0.25))
IqrSe(v) == <<"iqr/(ppf(0.75)-ppf(0.25))", v>>

\* np.nanquantile(np.abs(v / se), 0.95)
Quantile95(v, se) == <<"nanquantile(abs(v/se),0.95)", v, se>>

\* the constant 1.96
Z95 == Rat(196, 100)

\* center + cv * se and center - cv * se
Bound(center, sign, cv, se) == <<center, sign, cv, se>>

(***************************************************************************)
(* State.  The arguments of the call keep the names of the parameters;     *)
(* covariates and i_weights are rebound by lines 100-111 as in the source. *)
(***************************************************************************)
VARIABLES
    y, post, d,         \* outcome, post-period dummy, treated-group dummy (length n_units)
    covariates,         \* None, or the n_units x k matrix (sequence of rows)
    i_weights,          \* None or the given weights; after line 111 the normalized weights
    boot, boot_type, nboot, influence_func, trim_level,
    supplied,           \* covariates and i_weights as the caller passed them
    fit_reply,          \* what Logit(...).fit(disp=0) will answer (the environment)
    pc,                 \* the block of the function body to run next
    ps_fit, trim_ps,
    w_treat_pre, w_treat_post, w_cont_pre, w_cont_post,
    ipw_att, att_inf_func,
    se_att, uci, lci, ipw_boot,
    result,             \* the returned StdIPWDIDRCResult
    outcome,            \* "running", "returned" or "raised"
    raised,             \* the message of the ValueError raised, "" if none
    warns,              \* the messages passed to warnings.warn
    calls               \* the calls made to the collaborators, in order

args == <<y, post, d, boot, boot_type, nboot, influence_func, trim_level, supplied,
          fit_reply>>

locals == <<ps_fit, trim_ps, w_treat_pre, w_treat_post, w_cont_pre, w_cont_post,
            ipw_att, att_inf_func, se_att, uci, lci, ipw_boot>>

vars == <<args, covariates, i_weights, pc, locals, result, outcome, raised, warns, calls>>

\* the state in which the call with the arguments `in` starts
Call(in) ==
    /\ y = in.y /\ post = in.post /\ d = in.d
    /\ covariates = in.covariates
    /\ i_weights = in.i_weights
    /\ supplied = [covariates |-> in.covariates, i_weights |-> in.i_weights]
    /\ boot = in.boot /\ boot_type = in.boot_type /\ nboot = in.nboot
    /\ influence_func = in.influence_func
    /\ trim_level = in.trim_level
    /\ fit_reply = in.fit_reply
    /\ pc = "prepare"
    /\ ps_fit = None /\ trim_ps = None
    /\ w_treat_pre = None /\ w_treat_post = None
    /\ w_cont_pre = None /\ w_cont_post = None
    /\ ipw_att = None /\ att_inf_func = None
    /\ se_att = None /\ uci = None /\ lci = None /\ ipw_boot = None
    /\ result = None
    /\ outcome = "running"
    /\ raised = ""
    /\ warns = {}
    /\ calls = <<>>

\* raise ValueError(msg): the call ends, nothing else changes
Raise(msg) ==
    /\ raised' = msg
    /\ outcome' = "raised"
    /\ pc' = "done"

(***************************************************************************)
(* Lines 95-111: defaults, the check of the weights, their normalization   *)
(***************************************************************************)
Prepare ==
    /\ pc = "prepare"
    /\ covariates' = IF covariates = None THEN OnesColumn(Len(d)) ELSE covariates
    /\ IF i_weights # None /\ AnyNegative(i_weights)
       THEN /\ Raise("i_weights must be non-negative.")
            /\ UNCHANGED i_weights
       ELSE /\ i_weights' = NormalizeWeights(IF i_weights = None THEN Ones(Len(d))
                                                                 ELSE i_weights)
            /\ pc' = "check"
            /\ UNCHANGED <<raised, outcome>>
    /\ UNCHANGED <<args, locals, result, warns, calls>>

(***************************************************************************)
(* Lines 113-120                                                           *)
(***************************************************************************)
CheckGroups ==
    /\ pc = "check"
    /\ IF GroupCheck(d, post) # ""
       THEN Raise(GroupCheck(d, post))
       ELSE /\ pc' = "fit"
            /\ UNCHANGED <<raised, outcome>>
    /\ UNCHANGED <<args, covariates, i_weights, locals, result, warns, calls>>

(***************************************************************************)
(* Lines 122-138: the propensity score.  fit_reply.raises: the fit raises  *)
(* np.linalg.LinAlgError; otherwise it returns fit_reply.converged and     *)
(* fit_reply.params.                                                       *)
(***************************************************************************)
\* the warnings after line 127
FitWarns(reply) ==
    IF ~reply.raises /\ ~reply.converged THEN {"GLM algorithm did not converge."} ELSE {}

\* a fit that treats non-convergence as an error
FitErrorOnNonConvergence(reply) ==
    IF reply.raises \/ ~reply.converged
    THEN "Failed to estimate propensity scores due to singular matrix."
    ELSE IF AnyNaN(reply.params) THEN "Propensity score model coefficients have NA components."
    ELSE ""

\* the ValueError of lines 128-135, "" if none
FitError(reply) ==
    IF reply.raises THEN "Failed to estimate propensity scores due to singular matrix."
    ELSE IF AnyNaN(reply.params) THEN "Propensity score model coefficients have NA components."
    ELSE ""

FitPropensity ==
    /\ pc = "fit"
    /\ calls' = Append(calls, <<"Logit.fit", d, covariates, i_weights>>)
    /\ warns' = warns \cup FitWarns(fit_reply)
    /\ IF FitError(fit_reply) # ""
       THEN /\ Raise(FitError(fit_reply))
            /\ UNCHANGED ps_fit
       ELSE /\ ps_fit' = PsFit(covariates, fit_reply.params)
            /\ pc' = "weights"
            /\ UNCHANGED <<raised, outcome>>
    /\ UNCHANGED <<args, covariates, i_weights, trim_ps, w_treat_pre, w_treat_post,
                   w_cont_pre, w_cont_post, ipw_att, att_inf_func, se_att, uci, lci,
                   ipw_boot, result>>

(***************************************************************************)
(* Lines 140-149                                                           *)
(***************************************************************************)
BuildWeights ==
    /\ pc = "weights"
    /\ trim_ps' = TrimPs(d, ps_fit, trim_level)
    /\ w_treat_pre' = WTreat(trim_ps', i_weights, d, Compl(post))
    /\ w_treat_post' = WTreat(trim_ps', i_weights, d, post)
    /\ w_cont_pre' = WCont(trim_ps', i_weights, ps_fit, d, Compl(post))
    /\ w_cont_post' = WCont(trim_ps', i_weights, ps_fit, d, post)
    /\ pc' = "att"
    /\ UNCHANGED <<args, covariates, i_weights, ps_fit, ipw_att, att_inf_func, se_att,
                   uci, lci, ipw_boot, result, outcome, raised, warns, calls>>

(***************************************************************************)
(* Lines 151-164                                                           *)
(***************************************************************************)
EstimateAtt ==
    /\ pc = "att"
    /\ ipw_att' = IpwAtt(w_treat_pre, w_treat_post, w_cont_pre, w_cont_post, AsFloat(y))
    /\ pc' = "inf"
    /\ UNCHANGED <<args, covariates, i_weights, ps_fit, trim_ps, w_treat_pre, w_treat_post,
                   w_cont_pre, w_cont_post, att_inf_func, se_att, uci, lci, ipw_boot,
                   result, outcome, raised, warns, calls>>

(***************************************************************************)
(* Lines 166-200                                                           *)
(***************************************************************************)
\* the warning of line 172
HessianWarns(cov, psw) ==
    IF IsSingular(Gram(cov, psw))
    THEN {"Failed to invert Hessian matrix. Using pseudo-inverse."}
    ELSE {}

InfluenceFunction ==
    /\ pc = "inf"
    /\ warns' = warns \cup HessianWarns(covariates, PsWeights(ps_fit, i_weights))
    /\ att_inf_func' = AttInfFunc(i_weights, d, ps_fit, covariates, w_treat_pre,
                                  w_treat_post, w_cont_pre, w_cont_post, AsFloat(y))
    /\ pc' = "variance"
    /\ UNCHANGED <<args, covariates, i_weights, ps_fit, trim_ps, w_treat_pre, w_treat_post,
                   w_cont_pre, w_cont_post, ipw_att, se_att, uci, lci, ipw_boot,
                   result, outcome, raised, calls>>

(***************************************************************************)
(* Lines 202-221: the variance branch.  reply is the replicate sequence    *)
(* the bootstrap collaborator of the branch returns (None when boot is     *)
(* false: no collaborator is called).                                      *)
(***************************************************************************)
\* ipw_boot - ipw_att
Centered(reply, att) == Vec([b \in Idx(reply) |-> Sub(reply[b], att)])

\* a branch chosen by boot_type before the boot flag is read
BranchTypeFirst(bt_boot, bt_type) ==
    IF bt_type = "multiplier" THEN "multiplier"
    ELSE IF bt_boot THEN "weighted"
    ELSE "analytic"

\* the branch taken: "analytic" (line 203), "multiplier" (line 209) or "weighted" (line 215)
Branch(bt_boot, bt_type) ==
    IF ~bt_boot THEN "analytic"
    ELSE IF bt_type = "multiplier" THEN "multiplier"
    ELSE "weighted"

\* se_att of the branch
SeOf(br, inf, att, reply) ==
    IF br = "analytic" THEN AnalyticSe(inf)
    ELSE IF br = "multiplier" THEN IqrSe(reply)
    ELSE IqrSe(Centered(reply, att))

\* the critical value of the branch: 1.96, or cv
CvOf(br, inf, att, reply) ==
    IF br = "analytic" THEN Z95
    ELSE IF br = "multiplier" THEN Quantile95(reply, SeOf(br, inf, att, reply))
    ELSE Quantile95(Centered(reply, att), SeOf(br, inf, att, reply))

\* a weighted bootstrap that is handed the weights as supplied, not as normalized
BootCallRawWeights(br, inf, reply) ==
    IF br = "analytic" THEN <<>>
    ELSE IF br = "multiplier" THEN << <<"mboot_did", inf, nboot, reply>> >>
    ELSE << <<"wboot_std_ipw_rc",
              [y |-> y, post |-> post, d |-> d, x |-> covariates,
               i_weights |-> supplied.i_weights,
               n_bootstrap |-> nboot, trim_level |-> trim_level],
              reply>> >>

\* the call made to the bootstrap collaborator of the branch, with its reply
BootCall(br, inf, reply) ==
    IF br = "analytic" THEN <<>>
    ELSE IF br = "multiplier" THEN << <<"mboot_did", inf, nboot, reply>> >>
    ELSE << <<"wboot_std_ipw_rc",
              [y |-> y, post |-> post, d |-> d, x |-> covariates, i_weights |-> i_weights,
               n_bootstrap |-> nboot, trim_level |-> trim_level],
              reply>> >>

\* the values a bootstrap replicate may take, and the replies to a call for n replicates
BootValues == {NaN, One}

BootReplies(n) == [1..n -> BootValues]

Variance ==
    /\ pc = "variance"
    /\ \E reply \in (IF boot THEN BootReplies(nboot) ELSE {None}) :
          LET br == Branch(boot, boot_type)
              se == SeOf(br, att_inf_func, ipw_att, reply)
              cv == CvOf(br, att_inf_func, ipw_att, reply)
          IN  /\ calls' = calls \o BootCall(br, att_inf_func, reply)
              /\ ipw_boot' = reply
              /\ se_att' = se
              /\ uci' = Bound(ipw_att, 1, cv, se)
              /\ lci' = Bound(ipw_att, -1, cv, se)
    /\ pc' = "return"
    /\ UNCHANGED <<args, covariates, i_weights, ps_fit, trim_ps, w_treat_pre, w_treat_post,
                   w_cont_pre, w_cont_post, ipw_att, att_inf_func, result, outcome,
                   raised, warns>>

(***************************************************************************)
(* Lines 223-244                                                           *)
(***************************************************************************)
\* the args dict of lines 226-234
ArgsDict ==
    [panel |-> FALSE, normalized |-> TRUE, boot |-> boot, boot_type |-> boot_type,
     nboot |-> nboot, type |-> "ipw", trim_level |-> trim_level]

Return ==
    /\ pc = "return"
    /\ att_inf_func' = IF influence_func THEN att_inf_func ELSE None
    /\ result' = [att |-> ipw_att, se |-> se_att, uci |-> uci, lci |-> lci,
                  boots |-> ipw_boot, att_inf_func |-> att_inf_func', args |-> ArgsDict]
    /\ outcome' = "returned"
    /\ pc' = "done"
    /\ UNCHANGED <<args, covariates, i_weights, ps_fit, trim_ps, w_treat_pre, w_treat_post,
                   w_cont_pre, w_cont_post, ipw_att, se_att, uci, lci, ipw_boot,
                   raised, warns, calls>>

Next ==
    \/ Prepare
    \/ CheckGroups
    \/ FitPropensity
    \/ BuildWeights
    \/ EstimateAtt
    \/ InfluenceFunction
    \/ Variance
    \/ Return

(***************************************************************************)
(* The calls explored.  A layout assigns each unit its group x period      *)
(* cell (2 * d + post); every formula of the estimator is element-wise or  *)
(* a sum over the units, so layouts are enumerated up to a permutation of  *)
(* the units (cells in non-decreasing order).                              *)
(***************************************************************************)
Units == 1..NUnits

Layouts == {l \in [Units -> 0..3] : \A i \in 1..(NUnits - 1) : l[i] <= l[i + 1]}

\* the layouts with a unit in each of the four cells
FullLayouts == {l \in Layouts : \A c \in 0..3 : \E i \in Units : l[i] = c}

DOf(l) == [i \in Units |-> l[i] \div 2]

PostOf(l) == [i \in Units |-> l[i] % 2]

In(l, yy, cov, w, b, bt, nb, infl, trim, fit) ==
    [y |-> yy, post |-> PostOf(l), d |-> DOf(l), covariates |-> cov, i_weights |-> w,
     boot |-> b, boot_type |-> bt, nboot |-> nb, influence_func |-> infl,
     trim_level |-> trim, fit_reply |-> fit]

\* outcomes
YValues == {0, 1}

YPattern == [i \in Units |-> i % 3]

\* covariate matrices: an intercept column, alone or with one 0/1 covariate
CovWith(x) == [i \in Units |-> <<1, x[i]>>]

XAlternating == [i \in Units |-> i % 2]

XFirstTwo == [i \in Units |-> IF i <= 2 THEN 1 ELSE 0]

XZeros == [i \in Units |-> 0]

XOnes == [i \in Units |-> 1]

\* weights given by the caller
WUniform == [i \in Units |-> 2]

WMixed == [i \in Units |-> 1 + (i % 2)]

WWithZero == [i \in Units |-> IF i = 1 THEN 0 ELSE 1]

WAllZero == [i \in Units |-> 0]

WNegative == [i \in Units |-> IF i = NUnits THEN -1 ELSE 1]

\* trim levels: 0, 1/2 and the default 0.995
TrimDefault == Rat(995, 1000)

TrimLevels == {Zero, Rat(1, 2), TrimDefault}

BootTypes == {"weighted", "multiplier", "bayes"}

\* replies of the fit: exp(b) of a finite coefficient b ranges over FiniteOdds
FiniteOdds == {Rat(1, 2), One, Rat(3, 1)}

AnyOdds == FiniteOdds \cup {NaN, PosInf, Zero}

ParamsOver(S, k) == [1..k -> S]

Fitted(conv, params) == [raises |-> FALSE, converged |-> conv, params |-> params]

FitRaises == [raises |-> TRUE, converged |-> FALSE, params |-> <<>>]

\* TLC's integers have 32 bits: a fitted probability at a clipping bound (within
\* 1e-6 of 0 or 1) gives ps * (1 - ps) a denominator of 1e12, so the replies
\* explored are those that leave every fitted probability strictly inside the bounds
Unclipped(cov, params) ==
    \A i \in Idx(cov) : PsFit(cov, params)[i] \notin {ClipLo, ClipHi}

FitReplies(cov, S) ==
    LET c == IF cov = None THEN OnesColumn(NUnits) ELSE cov
    IN  {FitRaises} \cup
        {Fitted(conv, p) : conv \in BOOLEAN,
                           p \in {q \in ParamsOver(S, Len(c[1])) : Unclipped(c, q)}}

FitCovariates ==
    {None, OnesColumn(NUnits), CovWith(XAlternating), CovWith(XFirstTwo),
     CovWith(XZeros), CovWith(XOnes)}

NumCovariates == {None, CovWith(XAlternating)}

\* calls that exercise the validation of lines 105-120: every layout, every kind of weights
ValidationCalls ==
    \E l \in Layouts, b \in BOOLEAN,
       w \in {None, WUniform, WMixed, WWithZero, WAllZero, WNegative} :
        Call(In(l, YPattern, None, w, b, "multiplier", 1, FALSE, TrimDefault,
                Fitted(TRUE, <<One>>)))

\* calls that exercise the fit and the Hessian: every reply of the fit, covariates
\* with and without collinear columns
FitCalls ==
    \E l \in FullLayouts, w \in {None, WWithZero}, cov \in FitCovariates :
        \E fit \in FitReplies(cov, AnyOdds) :
            Call(In(l, YPattern, cov, w, FALSE, "weighted", 1, TRUE, TrimDefault, fit))

\* calls that exercise the variance branches and the returned record
VarianceCalls ==
    \E l \in FullLayouts, cov \in {OnesColumn(NUnits), CovWith(XAlternating)},
       b \in BOOLEAN, bt \in BootTypes, nb \in 1..MaxNBoot,
       infl \in BOOLEAN, trim \in TrimLevels :
        Call(In(l, YPattern, cov, None, b, bt, nb, infl, trim,
                Fitted(TRUE, [j \in Idx(cov[1]) |-> Rat(1, 2)])))

Init == ValidationCalls \/ FitCalls \/ VarianceCalls

Spec == Init /\ [][Next]_vars

\* the coefficients explored with the outcome vectors: exp(b) = 1/2 or 3 for the
\* intercept alone, one of each with a covariate
NumParams(cov) ==
    IF cov = None THEN {<<Rat(1, 2)>>, <<Rat(3, 1)>>}
    ELSE {<<Rat(1, 2), Rat(3, 1)>>, <<Rat(3, 1), Rat(1, 2)>>}

\* calls that exercise the arithmetic: every layout and every outcome vector
InitNum ==
    \E l \in Layouts, yy \in [Units -> YValues], w \in {None, WMixed},
       trim \in {Rat(1, 2), TrimDefault}, cov \in NumCovariates :
        \E p \in NumParams(cov) :
            Call(In(l, yy, cov, w, FALSE, "weighted", 1, TRUE, trim, Fitted(TRUE, p)))

SpecNum == InitNum /\ [][Next]_vars

(***************************************************************************)
(* Vocabulary of the properties                                            *)
(***************************************************************************)
Returned == outcome = "returned"

\* the calls made so far to the collaborator fn
CallsTo(fn) == {i \in 1..Len(calls) : calls[i][1] = fn}

FitCalled == CallsTo("Logit.fit") # {}

BootCalled == CallsTo("mboot_did") # {} \/ CallsTo("wboot_std_ipw_rc") # {}

\* the four weight vectors are built (line 149 has run)
WeightsBuilt == w_cont_post # None

FourWeights == <<w_treat_pre, w_treat_post, w_cont_pre, w_cont_post>>

IsZero(a) == a = Zero

\* the caller passed weights with a negative entry
NegativeWeightSupplied ==
    /\ supplied.i_weights # None
    /\ \E i \in 1..Len(supplied.i_weights) : supplied.i_weights[i] < 0

ValidationMessages ==
    {"i_weights must be non-negative.",
     "No treated units found. Cannot estimate treatment effect.",
     "No control units found. Cannot estimate treatment effect.",
     "No post-treatment observations found.",
     "No pre-treatment observations found."}

RejectedByValidation == outcome = "raised" /\ raised \in ValidationMessages

\* the units of the cell (group g, period t)
CellUnits(g, t) == {i \in 1..Len(d) : d[i] = g /\ post[i] = t}

SomeCellEmpty == \E g \in {0, 1}, t \in {0, 1} : CellUnits(g, t) = {}

\* no treated unit, no control unit, no post-period or no pre-period observation
SomeMarginEmpty ==
    \/ \A i \in 1..Len(d) : d[i] # 1
    \/ \A i \in 1..Len(d) : d[i] # 0
    \/ \A i \in 1..Len(d) : post[i] # 1
    \/ \A i \in 1..Len(d) : post[i] # 0

\* the input has a unit in each of the four cells and no negative weight: it passes
\* the validation, also one that asks for a unit in every cell
PassesValidation == ~SomeCellEmpty /\ ~NegativeWeightSupplied

(***************************************************************************)
(* C1.  For every input that passes the validation, if one of the four     *)
(* weight vectors sums to zero after trimming (trim_level = 0 trims every  *)
(* control), the call raises and returns no result computed from a 0/0     *)
(* cell mean.                                                              *)
(* The source has no such check: with every control trimmed the call       *)
(* returns a result whose att is NaN.  TLC finds C1_ZeroWeightSumRaises    *)
(* violated.                                                               *)
(***************************************************************************)
C1_ZeroWeightSumRaises ==
    (PassesValidation /\ WeightsBuilt /\ \E v \in 1..4 : IsZero(Sum(FourWeights[v])))
        => (~Returned /\ (pc = "done" => outcome = "raised"))

(***************************************************************************)
(* C2.  The validation rejects, with a validation error and before the     *)
(* propensity model is fitted, every input in which one of the four group  *)
(* x period cells has no unit.                                             *)
(* The source checks the two groups and the two periods separately (lines  *)
(* 113-120), so an input with both groups and both periods but an empty    *)
(* cell is fitted.  TLC finds C2_EmptyCellRejected violated.               *)
(***************************************************************************)
C2_EmptyCellRejected ==
    SomeCellEmpty => (~FitCalled /\ (pc = "done" => RejectedByValidation))

\* what does hold of the source: an input with no treated unit, no control unit, no
\* post-period or no pre-period observation is rejected before the fit, and an input
\* that has all four, and no negative weight, passes the validation
C2_EmptyMarginRejected ==
    /\ SomeMarginEmpty =>
          /\ ~FitCalled
          /\ pc \in {"prepare", "check", "done"}
          /\ pc = "done" => RejectedByValidation
    /\ (~SomeMarginEmpty /\ ~NegativeWeightSupplied) => ~RejectedByValidation

(***************************************************************************)
(* C3.  If the supplied weights have a negative entry, the call raises the *)
(* validation error of line 110 before the propensity fitter and before    *)
(* any bootstrap collaborator is called, and returns no result, whatever   *)
(* the other arguments are.                                                *)
(***************************************************************************)
C3_NegativeWeightRejected ==
    NegativeWeightSupplied =>
        /\ ~FitCalled /\ ~BootCalled /\ ~Returned
        /\ pc \in {"prepare", "done"}
        /\ pc = "done" =>
              (outcome = "raised" /\ raised = "i_weights must be non-negative.")

\* a call with a negative weight, bootstrap requested and an empty margin has been rejected
C3_Witness ==
    /\ NegativeWeightSupplied /\ boot /\ SomeMarginEmpty
    /\ pc = "done" /\ raised = "i_weights must be non-negative."

(***************************************************************************)
(* C4.  If a fitted coefficient is not finite (NaN, +inf or -inf), the     *)
(* call raises and returns no result: weights, ATT and variance are never  *)
(* computed from such coefficients.                                        *)
(* The source tests np.isnan only (line 128): with an infinite             *)
(* coefficient the call goes on.  TLC finds C4_NonFiniteCoefficientRaises  *)
(* violated.                                                               *)
(***************************************************************************)
\* exp(b) of a finite coefficient b is a positive finite number
IsFiniteCoefficient(eb) == IsFinite(eb) /\ eb[1] > 0

C4_NonFiniteCoefficientRaises ==
    (FitCalled /\ ~fit_reply.raises
        /\ \E j \in Idx(fit_reply.params) : ~IsFiniteCoefficient(fit_reply.params[j]))
        => (/\ outcome = "raised"
            /\ ps_fit = None /\ ~WeightsBuilt /\ ipw_att = None /\ se_att = None)

(***************************************************************************)
(* C5.  Non-convergence of the solver and a Hessian that cannot be         *)
(* inverted are not fatal.  After a fit that did not converge the warning  *)
(* of line 127 has been issued, the fitted probabilities are those of the  *)
(* coefficients returned, and the call raises only if a coefficient is     *)
(* NaN; once the influence function is computed with a singular Hessian    *)
(* the warning of line 172 has been issued, the matrix used is finite (the *)
(* pseudo-inverse), and the call does not raise; in both cases the call    *)
(* ends by returning a result.                                             *)
(***************************************************************************)
NotConverged == FitCalled /\ ~fit_reply.raises /\ ~fit_reply.converged

\* the Hessian of line 170 has been formed and is exactly singular
HessianSingular ==
    /\ pc \in {"variance", "return", "done"} /\ outcome # "raised"
    /\ Det(Gram(covariates, PsWeights(ps_fit, i_weights))) = Zero

C5_WarningsAreNotFatal ==
    /\ NotConverged =>
          /\ "GLM algorithm did not converge." \in warns
          /\ outcome = "raised" <=> AnyNaN(fit_reply.params)
          /\ ~AnyNaN(fit_reply.params) =>
                /\ ps_fit = PsFit(covariates, fit_reply.params)
                /\ pc = "done" => Returned
    /\ HessianSingular =>
          /\ "Failed to invert Hessian matrix. Using pseudo-inverse." \in warns
          /\ LET h == HessianPs(covariates, PsWeights(ps_fit, i_weights))
             IN  \A a \in Idx(h), b \in Idx(h) : IsFinite(h[a][b])
          /\ pc = "done" => Returned

\* a call whose fit did not converge and whose Hessian was singular has returned
C5_Witness ==
    /\ Returned /\ NotConverged /\ HessianSingular
    /\ Cardinality(warns) = 2

(***************************************************************************)
(* C6.  A call that returns has taken exactly one variance branch.  With   *)
(* boot false no bootstrap collaborator was called and the result has no   *)
(* draws.  With boot true and boot_type "multiplier" only mboot_did was    *)
(* called, once, with the influence function and nboot; with boot true and *)
(* boot_type "weighted" only wboot_std_ipw_rc was called, once, with the   *)
(* data, the weights, nboot and the trim level.  In both, the draws of the *)
(* result are the sequence the collaborator returned.                      *)
(***************************************************************************)
\* the influence function of line 200, from the state
InfluenceNow ==
    AttInfFunc(i_weights, d, ps_fit, covariates, w_treat_pre, w_treat_post,
               w_cont_pre, w_cont_post, AsFloat(y))

C6_OneVarianceBranch ==
    Returned =>
        /\ ~boot => (~BootCalled /\ result.boots = None)
        /\ (boot /\ boot_type = "multiplier") =>
              /\ CallsTo("wboot_std_ipw_rc") = {}
              /\ \E i \in 1..Len(calls) :
                    /\ CallsTo("mboot_did") = {i}
                    /\ calls[i][2] = InfluenceNow
                    /\ calls[i][3] = nboot
                    /\ result.boots = calls[i][4]
                    /\ Len(result.boots) = nboot
        /\ (boot /\ boot_type = "weighted") =>
              /\ CallsTo("mboot_did") = {}
              /\ \E i \in 1..Len(calls) :
                    /\ CallsTo("wboot_std_ipw_rc") = {i}
                    /\ calls[i][2] = [y |-> y, post |-> post, d |-> d, x |-> covariates,
                                      i_weights |-> i_weights, n_bootstrap |-> nboot,
                                      trim_level |-> trim_level]
                    /\ result.boots = calls[i][3]
                    /\ Len(result.boots) = nboot

\* a call has returned the draws of the multiplier bootstrap, one of them not NaN
C6_Witness ==
    /\ Returned /\ boot /\ boot_type = "multiplier" /\ nboot = MaxNBoot
    /\ CallsTo("mboot_did") # {}
    /\ \E b \in Idx(result.boots) : result.boots[b] = One

(***************************************************************************)
(* C7.  For every valid input with an intercept-only covariate matrix (or  *)
(* none) and uniform weights, the ATT returned equals the                  *)
(* difference-in-differences of the four unweighted cell means.            *)
(* This fails where C1 fails: when every control is trimmed the call       *)
(* returns NaN instead of raising.  TLC finds C7_InterceptOnlyIsDiD        *)
(* violated.                                                               *)
(***************************************************************************)
InterceptOnly ==
    supplied.covariates = None \/ supplied.covariates = OnesColumn(Len(d))

UniformWeights ==
    \/ supplied.i_weights = None
    \/ /\ supplied.i_weights[1] > 0
       /\ \A i \in Idx(supplied.i_weights) : supplied.i_weights[i] = supplied.i_weights[1]

\* the unweighted mean of y over the units of a cell (0/0 = NaN for an empty cell)
PlainMean(g, t) ==
    Div(Sum(Vec([i \in Idx(y) |-> IF i \in CellUnits(g, t) THEN Num(y[i]) ELSE Zero])),
        Num(Cardinality(CellUnits(g, t))))

SimpleDiD ==
    Sub(Sub(PlainMean(1, 1), PlainMean(1, 0)), Sub(PlainMean(0, 1), PlainMean(0, 0)))

\* equality of two floats: NaN equals nothing
FloatEq(a, b) == ~IsNaN(a) /\ ~IsNaN(b) /\ a = b

C7_InterceptOnlyIsDiD ==
    (PassesValidation /\ Returned /\ InterceptOnly /\ UniformWeights)
        => FloatEq(result.att, SimpleDiD)

\* what does hold of the source: the equality, for the calls in which each of
\* the four weight vectors has a positive sum
C7_HoldsUnlessDegenerate ==
    (Returned /\ InterceptOnly /\ UniformWeights
        /\ \A v \in 1..4 : Lt(Zero, Sum(FourWeights[v])))
        => FloatEq(result.att, SimpleDiD)

(***************************************************************************)
(* C8.  As claimed: running the estimator on y + c, everything else        *)
(* unchanged, shifts the ATT by c and leaves the variance of the influence *)
(* function unchanged.                                                     *)
(* Lines 95-149 do not read y, so both runs build the same weights; each   *)
(* of the four Hajek means moves by c and the double difference of line    *)
(* 164 cancels the shift.  TLC finds C8_ShiftMovesAtt violated.            *)
(***************************************************************************)
Shifts == {-1, 2}

\* the outcomes y + c, as floats
Shifted(c) == Vec([i \in Idx(y) |-> Num(y[i] + c)])

\* lines 151-164 and lines 166-200 on the outcomes yy, with the weights of the state
AttOn(yy) == IpwAtt(w_treat_pre, w_treat_post, w_cont_pre, w_cont_post, yy)

InfluenceOn(yy) ==
    AttInfFunc(i_weights, d, ps_fit, covariates, w_treat_pre, w_treat_post,
               w_cont_pre, w_cont_post, yy)

C8_ShiftMovesAtt ==
    pc = "variance" =>
        \A c \in Shifts :
            /\ AttOn(Shifted(c)) = Add(ipw_att, Num(c))
            /\ SampleVar(InfluenceOn(Shifted(c))) = SampleVar(att_inf_func)

(***************************************************************************)
(* C8, amended.  Running the estimator on y + c, everything else           *)
(* unchanged, yields the same ATT (not the ATT shifted by c) and the same   *)
(* influence function, hence an influence function of the same variance.   *)
(***************************************************************************)
C8_ShiftLeavesAttAndInfluence ==
    pc = "variance" =>
        \A c \in Shifts :
            /\ AttOn(Shifted(c)) = ipw_att
            /\ InfluenceOn(Shifted(c)) = att_inf_func
            /\ SampleVar(InfluenceOn(Shifted(c))) = SampleVar(att_inf_func)

\* a run with a covariate, unequal weights, a finite non-zero ATT and an influence
\* function that is not constant
C8_Witness ==
    /\ pc = "variance"
    /\ Len(covariates[1]) = 2 /\ supplied.i_weights # None
    /\ IsFinite(ipw_att) /\ ipw_att # Zero
    /\ IsFinite(SampleVar(att_inf_func)) /\ SampleVar(att_inf_func) # Zero

(***************************************************************************)
(* C9.  For every input that passes the validation, each of the four       *)
(* weight vectors is non-negative at every unit and zero at every unit     *)
(* outside its own cell; the trimming indicator is 1 for every treated     *)
(* unit; and every control whose clipped fitted probability is at least    *)
(* trim_level has weight zero in all four vectors.                         *)
(* Weights that are all zero pass line 109 and are divided by their mean,  *)
(* 0, at line 111: every weight is then NaN.  (A fitted probability that   *)
(* is NaN, from the coefficients of C4, does the same to the control       *)
(* weights.)  TLC finds C9_WeightVectorsWellFormed violated.               *)
(***************************************************************************)
\* the group and the period of the v-th of the four weight vectors
GroupOf(v) == IF v <= 2 THEN 1 ELSE 0

PeriodOf(v) == IF v \in {2, 4} THEN 1 ELSE 0

WellFormedAt(i) ==
    /\ \A v \in 1..4 :
          /\ Ge(FourWeights[v][i], Zero)
          /\ i \notin CellUnits(GroupOf(v), PeriodOf(v)) => FourWeights[v][i] = Zero
    /\ d[i] = 1 => trim_ps[i] = 1
    /\ (d[i] = 0 /\ Ge(ps_fit[i], trim_level)) => \A v \in 1..4 : FourWeights[v][i] = Zero

C9_WeightVectorsWellFormed ==
    (PassesValidation /\ WeightsBuilt) => \A i \in 1..Len(d) : WellFormedAt(i)

\* what does hold of the source: the same, for the calls whose normalized weights
\* and fitted probabilities are numbers
C9_HoldsForNumbers ==
    (WeightsBuilt /\ \A i \in 1..Len(d) : IsFinite(i_weights[i]) /\ IsFinite(ps_fit[i]))
        => \A i \in 1..Len(d) : WellFormedAt(i)

(***************************************************************************)
(* C10.  With boot true the call never rejects boot_type: every value but  *)
(* "multiplier" runs the weighted bootstrap.  With boot false boot_type    *)
(* has no effect on att, se and the confidence bounds: they are what any   *)
(* other boot_type gives.  The boot_type given is echoed in the args of    *)
(* the result.                                                             *)
(***************************************************************************)
FitMessages ==
    {"Failed to estimate propensity scores due to singular matrix.",
     "Propensity score model coefficients have NA components."}

C10_BootTypeNeverRejected ==
    /\ outcome = "raised" => raised \in ValidationMessages \cup FitMessages
    /\ (pc \in {"return", "done"} /\ outcome # "raised" /\ boot /\ boot_type # "multiplier") =>
          (CallsTo("wboot_std_ipw_rc") # {} /\ CallsTo("mboot_did") = {})
    /\ (pc = "return" /\ ~boot) =>
          /\ ~BootCalled
          /\ \A bt \in BootTypes :
                LET br == Branch(boot, bt)
                    se == SeOf(br, att_inf_func, ipw_att, ipw_boot)
                    cv == CvOf(br, att_inf_func, ipw_att, ipw_boot)
                IN  /\ se_att = se
                    /\ uci = Bound(ipw_att, 1, cv, se)
                    /\ lci = Bound(ipw_att, -1, cv, se)
    /\ Returned =>
          /\ result.args.boot_type = boot_type
          /\ result.att = ipw_att /\ result.se = se_att
          /\ result.uci = uci /\ result.lci = lci

\* a call with boot true and a boot_type that is neither "multiplier" nor "weighted"
\* has returned the draws of the weighted bootstrap
C10_Witness ==
    /\ Returned /\ boot /\ boot_type \notin {"multiplier", "weighted"}
    /\ CallsTo("wboot_std_ipw_rc") # {}
    /\ result.args.boot_type = boot_type

=============================================================================
